---- MODULE Spec2Model ----
(***************************************************************************)
(* A model of the gopher client: the directory parser of src/src/lib.rs    *)
(* and the navigation engine (struct Gopher) of src/src/main.rs.           *)
(*                                                                         *)
(* A Rust String is modelled as a sequence of one-character strings, so    *)
(* that splitting, matching and formatting are computed and not assumed.   *)
(***************************************************************************)
EXTENDS Integers, Sequences, FiniteSets, TLC

TAB == "\t"
NL  == "\n"
CR  == "\r"

Digits == <<"0", "1", "2", "3", "4", "5", "6", "7", "8", "9">>

IsDigit(c) == \E i \in 1..10 : Digits[i] = c

DigitValue(c) == (CHOOSE i \in 1..10 : Digits[i] = c) - 1

(* The index of the first occurrence of c in s at an index >= from, or 0. *)
IndexFrom(s, c, from) ==
    IF \E i \in from..Len(s) : s[i] = c
    THEN CHOOSE i \in from..Len(s) : s[i] = c /\ \A j \in from..(i - 1) : s[j] # c
    ELSE 0

(* str::ends_with *)
EndsWith(s, suffix) ==
    /\ Len(s) >= Len(suffix)
    /\ SubSeq(s, Len(s) - Len(suffix) + 1, Len(s)) = suffix

(***************************************************************************)
(* Type, src/src/lib.rs                                                    *)
(***************************************************************************)
(* The variants of Type without a payload *)
File == <<"File">>
Directory == <<"Directory">>

KnownCodes ==
    << <<"0", File>>, <<"1", Directory>>, <<"2", <<"CSOPhoneBook">> >>,
       <<"3", <<"Error">> >>, <<"4", <<"BinHexed">> >>, <<"5", <<"BinArchive">> >>,
       <<"6", <<"UUEncoded">> >>, <<"7", <<"SearchServer">> >>,
       <<"8", <<"TelnetSession">> >>, <<"9", <<"Binary">> >>,
       <<"+", <<"RedundantServer">> >>, <<"T", <<"Tn3270Session">> >>,
       <<"g", <<"GIF">> >>, <<"I", <<"Image">> >> >>

(* Type::Unknown(char) *)
Unknown(c) == <<"Unknown", c>>

as_charUnknownMark(t) ==
    IF \E i \in 1..Len(KnownCodes) : KnownCodes[i][2] = t
    THEN KnownCodes[CHOOSE i \in 1..Len(KnownCodes) : KnownCodes[i][2] = t][1]
    ELSE "?"

from_char(c) ==
    IF \E i \in 1..Len(KnownCodes) : KnownCodes[i][1] = c
    THEN KnownCodes[CHOOSE i \in 1..Len(KnownCodes) : KnownCodes[i][1] = c][2]
    ELSE Unknown(c)

as_char(t) ==
    IF \E i \in 1..Len(KnownCodes) : KnownCodes[i][2] = t
    THEN KnownCodes[CHOOSE i \in 1..Len(KnownCodes) : KnownCodes[i][2] = t][1]
    ELSE t[2]

is_fileOnlyFile(t) == t = File

(* Type::is_file: the variants its match arm lists, Unknown with any char *)
is_file(t) ==
    \/ t \in {Directory, <<"CSOPhoneBook">>, <<"Error">>, <<"SearchServer">>,
              <<"TelnetSession">>, <<"Tn3270Session">>, <<"RedundantServer">>}
    \/ t[1] = "Unknown"

(***************************************************************************)
(* DirectoryItem, src/src/lib.rs                                           *)
(***************************************************************************)
DefaultPort == 70

DirectoryItem(t, name, selector, host, port) ==
    [t |-> t, name |-> name, selector |-> selector, host |-> host, port |-> port]

(* Result values *)
Ok(v)  == [ok |-> TRUE, val |-> v]
Err(e) == [ok |-> FALSE, err |-> e]

(* GopherError *)
ParseDirectoryItem(s) == <<"ParseDirectoryItem", s>>
ParseDirectory(s) == <<"ParseDirectory", s>>
Io == <<"Io">>

(* The longest prefix of s that consists of digits: the group \d* *)
RECURSIVE DigitPrefix(_)
DigitPrefix(s) ==
    IF s = <<>> \/ ~IsDigit(Head(s)) THEN <<>>
    ELSE <<Head(s)>> \o DigitPrefix(Tail(s))

RECURSIVE DecimalValue(_)
DecimalValue(s) ==
    IF s = <<>> THEN 0
    ELSE 10 * DecimalValue(SubSeq(s, 1, Len(s) - 1)) + DigitValue(s[Len(s)])

(* usize::MAX of a 64-bit target, in decimal *)
UsizeMaxDigits ==
    <<"1", "8", "4", "4", "6", "7", "4", "4", "0", "7", "3", "7", "0", "9", "5",
      "5", "1", "6", "1", "5">>

RECURSIVE StripZeros(_)
StripZeros(s) ==
    IF s # <<>> /\ Head(s) = "0" THEN StripZeros(Tail(s)) ELSE s

(* Whether the digits a are a greater number than the digits b, both of   *)
(* the same length.                                                       *)
DigitsGreater(a, b) ==
    \E i \in 1..Len(a) :
        /\ DigitValue(a[i]) > DigitValue(b[i])
        /\ \A j \in 1..(i - 1) : a[j] = b[j]

(* Whether the number the digits s write does not fit usize *)
Overflows(s) ==
    LET z == StripZeros(s)
    IN  \/ Len(z) > Len(UsizeMaxDigits)
        \/ Len(z) = Len(UsizeMaxDigits) /\ DigitsGreater(z, UsizeMaxDigits)

(* str::parse::<usize>().unwrap_or(70) on the port group: the parse fails *)
(* on the empty text and on a number that does not fit usize.             *)
ParsePort(s) ==
    IF s = <<>> \/ Overflows(s) THEN DefaultPort ELSE DecimalValue(s)

(* Whether the pattern matches with its first character at index p:       *)
(* `.` takes one character other than a newline, and three tabs follow.   *)
MatchesAt(s, p) ==
    /\ p \in 1..Len(s)
    /\ s[p] # NL
    /\ LET t1 == IndexFrom(s, TAB, p + 1)
           t2 == IF t1 = 0 THEN 0 ELSE IndexFrom(s, TAB, t1 + 1)
           t3 == IF t2 = 0 THEN 0 ELSE IndexFrom(s, TAB, t2 + 1)
       IN  t3 # 0

ItemFromStrNameWithType(s) ==
    IF Len(s) <= 1 THEN Err(ParseDirectoryItem(s))
    ELSE IF \E p \in 1..Len(s) : MatchesAt(s, p)
    THEN LET p  == CHOOSE q \in 1..Len(s) :
                       MatchesAt(s, q) /\ \A r \in 1..(q - 1) : ~MatchesAt(s, r)
             t1 == IndexFrom(s, TAB, p + 1)
             t2 == IndexFrom(s, TAB, t1 + 1)
             t3 == IndexFrom(s, TAB, t2 + 1)
         IN  Ok(DirectoryItem(from_char(s[1]),
                              SubSeq(s, p, t1 - 1),
                              SubSeq(s, t1 + 1, t2 - 1),
                              SubSeq(s, t2 + 1, t3 - 1),
                              ParsePort(DigitPrefix(SubSeq(s, t3 + 1, Len(s))))))
    ELSE Err(ParseDirectoryItem(s))

(* DirectoryItem::from_str *)
ItemFromStr(s) ==
    IF Len(s) <= 1 THEN Err(ParseDirectoryItem(s))
    ELSE IF \E p \in 1..Len(s) : MatchesAt(s, p)
    THEN LET p  == CHOOSE q \in 1..Len(s) :
                       MatchesAt(s, q) /\ \A r \in 1..(q - 1) : ~MatchesAt(s, r)
             t1 == IndexFrom(s, TAB, p + 1)
             t2 == IndexFrom(s, TAB, t1 + 1)
             t3 == IndexFrom(s, TAB, t2 + 1)
         IN  Ok(DirectoryItem(from_char(s[1]),
                              SubSeq(s, p + 1, t1 - 1),
                              SubSeq(s, t1 + 1, t2 - 1),
                              SubSeq(s, t2 + 1, t3 - 1),
                              ParsePort(DigitPrefix(SubSeq(s, t3 + 1, Len(s))))))
    ELSE Err(ParseDirectoryItem(s))

FAKE == <<"f", "a", "k", "e">>

is_fakeNameSuffix(item) ==
    \/ EndsWith(item.selector, FAKE)
    \/ EndsWith(item.name, FAKE)
    \/ item.host = FAKE

(* DirectoryItem::is_fake *)
is_fake(item) ==
    \/ EndsWith(item.selector, FAKE)
    \/ item.name = FAKE
    \/ item.host = FAKE

(* DirectoryItem::is_info: called by the client, informational items are  *)
(* those of type i and those the heuristic is_fake recognises.            *)
is_info(item) == item.t = Unknown("i") \/ is_fake(item)

(***************************************************************************)
(* Directory, src/src/lib.rs                                               *)
(***************************************************************************)
StripCR(line) ==
    IF Len(line) > 0 /\ line[Len(line)] = CR
    THEN SubSeq(line, 1, Len(line) - 1) ELSE line

(* str::lines: the text split at newlines, no final empty line.  ends   *)
(* are the indices where a line ends: those of the newlines, and the one *)
(* past the end of a text that does not end in a newline.                *)
Lines(s) ==
    LET ends == SelectSeq([i \in 1..(Len(s) + 1) |-> i],
                          LAMBDA i : IF i <= Len(s) THEN s[i] = NL
                                     ELSE s # <<>> /\ s[Len(s)] # NL)
    IN  [k \in 1..Len(ends) |->
            StripCR(SubSeq(s, IF k = 1 THEN 1 ELSE ends[k - 1] + 1, ends[k] - 1))]

(* The least member of a nonempty set of numbers *)
Least(S) == CHOOSE k \in S : \A j \in S : k <= j

ParseLinesNoDot(lines, items) ==
    LET ends == {k \in 1..Len(lines) : ~ItemFromStr(lines[k]).ok}
        last == IF ends = {} THEN Len(lines) + 1 ELSE Least(ends)
        read == [k \in 1..(last - 1) |-> ItemFromStr(lines[k]).val]
    IN  IF last <= Len(lines) THEN Err(ParseDirectoryItem(lines[last]))
        ELSE Ok(items \o read)

(* The loop of Directory::from_str over the lines: it ends at the first   *)
(* line that is a dot, with the items read so far, or at the first line   *)
(* that is no item, with the error; else it reads every line.             *)
ParseLines(lines, items) ==
    LET ends == {k \in 1..Len(lines) :
                     lines[k] = <<".">> \/ ~ItemFromStr(lines[k]).ok}
        last == IF ends = {} THEN Len(lines) + 1 ELSE Least(ends)
        read == [k \in 1..(last - 1) |-> ItemFromStr(lines[k]).val]
    IN  IF last <= Len(lines) /\ lines[last] # <<".">>
        THEN Err(ParseDirectoryItem(lines[last]))
        ELSE Ok(items \o read)

(* Directory::from_str *)
DirectoryFromStr(s) == ParseLines(Lines(s), <<>>)

(***************************************************************************)
(* Display, src/src/lib.rs                                                 *)
(***************************************************************************)
RECURSIVE Decimal(_)
Decimal(n) ==
    IF n < 10 THEN <<Digits[n + 1]>>
    ELSE Decimal(n \div 10) \o <<Digits[(n % 10) + 1]>>

(* impl Display for DirectoryItem *)
FormatItem(item) ==
    <<as_char(item.t)>> \o item.name \o <<TAB>> \o item.selector \o <<TAB>>
        \o item.host \o <<TAB>> \o Decimal(item.port)

RECURSIVE FormatDirectoryNoDot(_)
FormatDirectoryNoDot(items) ==
    IF items = <<>> THEN <<>>
    ELSE FormatItem(Head(items)) \o <<NL>> \o FormatDirectoryNoDot(Tail(items))

(* impl Display for Directory *)
RECURSIVE FormatDirectory(_)
FormatDirectory(items) ==
    IF items = <<>> THEN <<".">>
    ELSE FormatItem(Head(items)) \o <<NL>> \o FormatDirectory(Tail(items))

(* MENU_KEYS, src/src/main.rs *)
MENU_KEYS ==
    <<"0", "1", "2", "3", "4", "5", "6", "7", "8", "9", "a", "b", "c",
      "d", "e", "f", "g", "h", "i", "j", "k", "l", "m", "n", "o", "p",
      "q", "r", "s", "t", "u", "v", "w", "x", "y", "z", "A", "B", "C",
      "D", "E", "F", "G", "H", "I", "J", "K", "L", "M", "N", "O", "P",
      "Q", "R", "S", "T", "U", "V", "W", "X", "Y", "Z", "!", "@", "#",
      "$", "%", "^", "&", "*", "(", ")", "-", "+", "_", "=">>

(***************************************************************************)
(* The transport, src/src/main.rs get_resource: what a server may answer.  *)
(***************************************************************************)
Str_gopher_quux_org ==
    <<"g", "o", "p", "h", "e", "r", ".", "q", "u", "u", "x", ".", "o", "r", "g">>
HostX == <<"x", ".", "o", "r", "g">>
HostY == <<"y", ".", "o", "r", "g">>

(* A menu: a directory, an item of type i, a file, an item on host fake *)
MenuItems ==
    << DirectoryItem(Directory, <<"A">>, <<"/", "a">>, HostX, 70),
       DirectoryItem(Unknown("i"), <<"n", "o", "t", "e">>, <<>>, <<"-">>, 0),
       DirectoryItem(File, <<"B">>, <<>>, HostY, 7070),
       DirectoryItem(Directory, <<"C">>, <<"/", "c">>, FAKE, 70) >>

(* text, n times over *)
RECURSIVE Repeat(_, _)
Repeat(text, n) ==
    IF n = 0 THEN <<>>
    ELSE IF n = 1 THEN text
    ELSE Repeat(text, n \div 2) \o Repeat(text, n - (n \div 2))

(* A menu of one item more than MENU_KEYS has symbols, each a directory *)
LongItem == DirectoryItem(Directory, <<"D">>, <<>>, HostX, 70)

MenuBody  == FormatDirectory(MenuItems) \o <<NL>>
LongBody  == Repeat(FormatItem(LongItem) \o <<NL>>, Len(MENU_KEYS) + 1) \o <<".", NL>>
TextBody  == <<"h", "i", NL, "1", "x", TAB, "y", NL>>
EmptyBody == <<>>

Bodies == {MenuBody, LongBody, TextBody, EmptyBody}

(* The results get_resource can return: an io error or the body read *)
Responses == {Err(Io)} \cup {Ok(b) : b \in Bodies}

(***************************************************************************)
(* State, src/src/main.rs                                                  *)
(***************************************************************************)
DisplayDirectory(location, dir, scroll) ==
    [tag |-> "DisplayDirectory", location |-> location, dir |-> dir, scroll |-> scroll]
DisplayResource(location, s, scroll) ==
    [tag |-> "DisplayResource", location |-> location, s |-> s, scroll |-> scroll]
ShowMessage(s) == [tag |-> "ShowMessage", s |-> s]
Error(e) == [tag |-> "Error", e |-> e]

(* format!("{}:{} {}", host, port, selector) *)
Location(host, port, selector) ==
    host \o <<":">> \o Decimal(port) \o <<" ">> \o selector

(* The arguments of a get_resource call, and the absence of a call *)
Request(host, port, selector) == [host |-> host, port |-> port, selector |-> selector]
NoRequest  == [host |-> <<>>, port |-> -1, selector |-> <<>>]
NoResponse == [ok |-> FALSE, err |-> <<"none">>]

(* Bounds of the exploration *)
MaxDepth  == 3
MaxScroll == 10
MaxN      == 2

(* The amounts the key handlers of main pass to scroll *)
ScrollAmounts == {-10, -1, 1, 10}

(***************************************************************************)
(* states is Gopher::states.  op and pre record the last call: its name,   *)
(* its argument, the get_resource call it made with the result it got, the *)
(* name of the call before it, and the stack as it was when it was made.   *)
(***************************************************************************)
VARIABLES states, op, pre

vars == <<states, op, pre>>

(***************************************************************************)
(* A run of the library on one text: input is the text handed to it, stage *)
(* the call made last, out the values that call returned.  The client      *)
(* leaves the three as they are, a run of the library leaves the client.   *)
(***************************************************************************)
VARIABLES input, stage, out

run == <<input, stage, out>>

NoRun == input = <<>> /\ stage = "none" /\ out = <<>>

Call(kind, arg, req, resp) ==
    [kind |-> kind, arg |-> arg, req |-> req, resp |-> resp, after |-> op.kind]

(* Gopher::new: the match on the fetched resource *)
NewState(host, port, selector, resource) ==
    IF resource.ok
    THEN LET d == DirectoryFromStr(resource.val)
         IN  IF d.ok THEN DisplayDirectory(Location(host, port, selector), d.val, 0)
             ELSE Error(d.err)
    ELSE Error(Io)

(* main: the default host, port 70 and the empty selector *)
Init ==
    \E resource \in Responses :
        /\ states = <<NewState(Str_gopher_quux_org, DefaultPort, <<>>, resource)>>
        /\ op = [kind |-> "new", arg |-> 0,
                 req |-> Request(Str_gopher_quux_org, DefaultPort, <<>>),
                 resp |-> resource, after |-> "none"]
        /\ pre = <<>>
        /\ NoRun

(* Gopher::current_state: the top of the stack, or the panic *)
current_state(s) ==
    IF Len(s) > 0 THEN s[Len(s)] ELSE [tag |-> "panic: lost root state"]

(* Iterator::skip *)
Skip(seq, k) == SubSeq(seq, k + 1, Len(seq))

Navigable(item) == ~is_info(item)

(* main: the calls activate_item(n) that the key pressed makes *)
KeyTargets(pressed) == {n \in 0..(Len(MENU_KEYS) - 1) : MENU_KEYS[n + 1] = pressed}

(* A row of the screen: the item shown, whether it has a button, and the  *)
(* symbol of the button; panic when the symbol is past the end of the     *)
(* alphabet.                                                              *)
Row(item, labelled, button) ==
    [item |-> item, labelled |-> labelled, button |-> button, panic |-> FALSE]
PanicRow(item) ==
    [item |-> item, labelled |-> TRUE, button |-> "", panic |-> TRUE]

DisplayRowsEveryItemCounted(items, item_number) ==
    LET number(k) == item_number + (k - 1)
        past == {k \in 1..Len(items) :
                     ~is_info(items[k]) /\ number(k) + 1 > Len(MENU_KEYS)}
        last == IF past = {} THEN Len(items) ELSE Least(past)
    IN  [k \in 1..last |->
            IF is_info(items[k]) THEN Row(items[k], FALSE, "")
            ELSE IF number(k) + 1 > Len(MENU_KEYS) THEN PanicRow(items[k])
            ELSE Row(items[k], TRUE, MENU_KEYS[number(k) + 1])]

(* Gopher::display_directory: the loop over the items that remain.  nav   *)
(* are the indices of the items that get a button, in order; number(k) is *)
(* item_number when the k-th item is drawn: the count of the buttons      *)
(* drawn before it.  The loop ends at the first item whose button is past *)
(* the end of MENU_KEYS, with the panic.                                  *)
DisplayRows(items, item_number) ==
    LET nav  == SelectSeq([k \in 1..Len(items) |-> k], LAMBDA k : ~is_info(items[k]))
        number(k) == item_number + (CHOOSE j \in 1..Len(nav) : nav[j] = k) - 1
        past == {j \in 1..Len(nav) : item_number + (j - 1) + 1 > Len(MENU_KEYS)}
        last == IF past = {} THEN Len(items) ELSE nav[Least(past)]
    IN  [k \in 1..last |->
            IF is_info(items[k]) THEN Row(items[k], FALSE, "")
            ELSE IF number(k) + 1 > Len(MENU_KEYS) THEN PanicRow(items[k])
            ELSE Row(items[k], TRUE, MENU_KEYS[number(k) + 1])]

(* Gopher::display_directory *)
display_directory(dir, scroll) == DisplayRows(Skip(dir, scroll), 0)

(* Gopher::display: whether drawing the top view of s returns.  The views *)
(* of text are drawn line by line; display_directory panics when it       *)
(* slices MENU_KEYS past its end.                                         *)
display(s) ==
    LET cur == current_state(s)
    IN  cur.tag = "DisplayDirectory" =>
            LET rows == display_directory(cur.dir, cur.scroll)
            IN  \A j \in 1..Len(rows) : ~rows[j].panic

(* main: gopher.display(&rustbox) returned, and poll_event is reached *)
Displayed == display(states)


CandidatesUnscrolled(dir, scroll) == SelectSeq(dir, Navigable)

CandidatesFilterFirst(dir, scroll) == Skip(SelectSeq(dir, Navigable), scroll)

(* dir.items().iter().skip(scroll).filter(|item| !item.is_info()) *)
Candidates(dir, scroll) == SelectSeq(Skip(dir, scroll), Navigable)

NewScrollNoClamp(scroll, amount) == scroll + amount

(* Gopher::scroll: the new offset *)
NewScroll(scroll, amount) ==
    LET new_scroll == scroll + amount
    IN  IF new_scroll < 0 THEN 0 ELSE new_scroll

(* Gopher::scroll: the match on the current state *)
Scrolled(state, amount) ==
    IF state.tag \in {"DisplayDirectory", "DisplayResource"}
    THEN [state EXCEPT !.scroll = NewScroll(state.scroll, amount)]
    ELSE state

ScrolledStackAll(s, amount) == [i \in 1..Len(s) |-> Scrolled(s[i], amount)]

ScrolledStackRoot(s, amount) == [s EXCEPT ![1] = Scrolled(s[1], amount)]

(* Gopher::scroll on the stack s, through current_state_mut *)
ScrolledStack(s, amount) ==
    IF Len(s) > 0 THEN [s EXCEPT ![Len(s)] = Scrolled(s[Len(s)], amount)]
    ELSE <<[tag |-> "panic: lost root state"]>>

(* Gopher::scroll *)
Scroll(amount) ==
    /\ Displayed
    /\ LET cur == current_state(states)
       IN  cur.tag \in {"DisplayDirectory", "DisplayResource"}
               => cur.scroll + amount <= MaxScroll
    /\ states' = ScrolledStack(states, amount)
    /\ op' = Call("scroll", amount, NoRequest, NoResponse)
    /\ pre' = states

PoppedAlways(s) == SubSeq(s, 1, Len(s) - 1)

PoppedToRoot(s) == IF Len(s) > 1 THEN <<s[1]>> ELSE s

(* Gopher::pop_state on the stack s *)
Popped(s) == IF Len(s) > 1 THEN SubSeq(s, 1, Len(s) - 1) ELSE s

(* Gopher::pop_state *)
PopState ==
    /\ Displayed
    /\ states' = Popped(states)
    /\ op' = Call("pop_state", 0, NoRequest, NoResponse)
    /\ pre' = states

(* Gopher::activate_item: the state built from the fetched resource *)
FetchedState(item, resource) ==
    IF resource.ok
    THEN LET d == DirectoryFromStr(resource.val)
         IN  IF d.ok
             THEN DisplayDirectory(Location(item.host, item.port, item.selector), d.val, 0)
             ELSE DisplayResource(Location(item.host, item.port, item.selector),
                                  resource.val, 0)
    ELSE Error(Io)

PushedUnlessMessage(s, new_state) ==
    IF new_state.tag = "ShowMessage" THEN s ELSE Append(s, new_state)

PushedOverMessage(s, new_state) ==
    IF current_state(s).tag = "ShowMessage"
    THEN [s EXCEPT ![Len(s)] = new_state]
    ELSE Append(s, new_state)

(* self.states.push(new_state) *)
Pushed(s, new_state) == Append(s, new_state)

Fetch(item)  == [fetch |-> TRUE, item |-> item]
Notice(text) == [fetch |-> FALSE, text |-> text]

SelectionOneNotice(cur, n) ==
    IF cur.tag = "DisplayDirectory" /\ n < Len(Candidates(cur.dir, cur.scroll))
    THEN Fetch(Candidates(cur.dir, cur.scroll)[n + 1])
    ELSE Notice("No such item")

(* Gopher::activate_item: the match on the current state, up to the fetch *)
Selection(cur, n) ==
    IF cur.tag = "DisplayDirectory"
    THEN LET found == Candidates(cur.dir, cur.scroll)
         IN  IF n < Len(found) THEN Fetch(found[n + 1])
             ELSE Notice("No such item")
    ELSE Notice("Not in a directory")

(* Gopher::activate_item *)
ActivateItem(n) ==
    /\ Displayed
    /\ Len(states) < MaxDepth
    /\ pre' = states
    /\ LET sel == Selection(current_state(states), n)
       IN  IF sel.fetch
           THEN \E resource \in Responses :
                    /\ states' = Pushed(states, FetchedState(sel.item, resource))
                    /\ op' = Call("activate_item", n,
                                  Request(sel.item.host, sel.item.port,
                                          sel.item.selector),
                                  resource)
           ELSE /\ states' = Pushed(states, ShowMessage(sel.text))
                /\ op' = Call("activate_item", n, NoRequest, NoResponse)

(* Gopher::activate_item: the stack it leaves, given what the fetch gave *)
ActivatedStack(s, n, resource) ==
    LET sel == Selection(current_state(s), n)
    IN  IF sel.fetch THEN Pushed(s, FetchedState(sel.item, resource))
        ELSE Pushed(s, ShowMessage(sel.text))

(* Keys of the exploration: the symbols at the positions 0..MaxN, the     *)
(* last symbol of MENU_KEYS, and a character that is not in MENU_KEYS     *)
Pressable ==
    {MENU_KEYS[n + 1] : n \in 0..MaxN} \cup {MENU_KEYS[Len(MENU_KEYS)], "?"}

(* MENU_KEYS.chars().enumerate(): the positions, from zero *)
Positions == [i \in 1..Len(MENU_KEYS) |-> i - 1]

KeyCallsThrough(pressed) ==
    IF KeyTargets(pressed) = {} THEN <<>>
    ELSE [i \in 1..((CHOOSE n \in KeyTargets(pressed) : TRUE) + 1) |-> i - 1]

(* main: for (n, c) in MENU_KEYS.chars().enumerate(): the arguments of    *)
(* the calls of activate_item, in the order they are made                 *)
KeyCalls(pressed) == SelectSeq(Positions, LAMBDA n : MENU_KEYS[n + 1] = pressed)

(* get_resource as activate_item calls it: the request made for the     *)
(* selection, none when the selection is a notice                        *)
Requested(sel) ==
    IF sel.fetch THEN Request(sel.item.host, sel.item.port, sel.item.selector)
    ELSE NoRequest

(* main: the body of the for loop, call after call: the stacks it can    *)
(* leave, each with the last request made and the result it got          *)
RECURSIVE KeyLoop(_, _, _, _)
KeyLoop(s, calls, req, resp) ==
    IF calls = <<>> THEN {[s |-> s, req |-> req, resp |-> resp]}
    ELSE LET sel == Selection(current_state(s), Head(calls))
         IN  UNION {KeyLoop(ActivatedStack(s, Head(calls), resource), Tail(calls),
                            Requested(sel), resource) :
                        resource \in IF sel.fetch THEN Responses ELSE {NoResponse}}

(* main: Key::Char(pressed) *)
KeyChar(pressed) ==
    LET calls == KeyCalls(pressed)
    IN  /\ Displayed
        /\ Len(states) + Len(calls) <= MaxDepth
        /\ pre' = states
        /\ \E done \in KeyLoop(states, calls, NoRequest, NoResponse) :
               /\ states' = done.s
               /\ op' = Call("key", [pressed |-> pressed, calls |-> calls],
                             done.req, done.resp)

Next ==
    \/ \E amount \in ScrollAmounts : Scroll(amount)
    \/ PopState
    \/ \E n \in 0..MaxN : ActivateItem(n)
    \/ \E pressed \in Pressable : KeyChar(pressed)

Spec == Init /\ [][Next /\ UNCHANGED run]_<<vars, run>>

(***************************************************************************)
(* The library alone: the texts handed to it and the calls made on them.   *)
(***************************************************************************)
(* Bounds of the texts *)
MaxRawLen == 5
MaxLines  == 3

(* The type characters: the 14 codes of the protocol, i and an unknown    *)
(* code                                                                   *)
TypeChars == {KnownCodes[i][1] : i \in 1..Len(KnownCodes)} \cup {"i", "?"}

NameTexts     == {<<>>, <<"A">>, FAKE, <<"x">> \o FAKE}
SelectorTexts == {<<>>, <<"/">>, FAKE, <<"/">> \o FAKE}
HostTexts     == {<<"h">>, FAKE, FAKE \o <<"x">>}

(* A number that does not fit usize: 21 digits *)
HugeDigits == [i \in 1..21 |-> "9"]

(* Port fields: empty, decimal, with a leading zero, with a character     *)
(* that is no digit after or before the digits, and too large             *)
PortTexts ==
    {<<>>, <<"7">>, <<"7", "0">>, <<"0", "7">>, <<"8", "x">>, <<"x", "8">>, HugeDigits}

(* The lines of four fields *)
FieldLines ==
    {<<t>> \o n \o <<TAB>> \o sel \o <<TAB>> \o h \o <<TAB>> \o p :
        t \in TypeChars, n \in NameTexts, sel \in SelectorTexts,
        h \in HostTexts, p \in PortTexts}

(* Every line over three characters, up to a length *)
RawChars == {"a", TAB, "7"}
RawLines == UNION {[1..n -> RawChars] : n \in 0..MaxRawLen}

(* The lines the longer texts are made of *)
GoodLine  == <<"0", "A", TAB, "/", TAB, "h", TAB, "7", "0">>
InfoLine  == <<"i", "A", TAB, TAB, "h", TAB, "7">>
BadLine   == <<"a", TAB, "b">>
DotLine   == <<".">>
LinePool  == {GoodLine, InfoLine, BadLine, DotLine}

RECURSIVE Join(_, _)
Join(lines, sep) ==
    IF lines = <<>> THEN <<>>
    ELSE IF Len(lines) = 1 THEN Head(lines)
    ELSE Head(lines) \o sep \o Join(Tail(lines), sep)

(* Texts of up to MaxLines lines, separated by a newline or by a carriage *)
(* return and a newline, with or without a separator at the end           *)
PoolTexts ==
    {Join(ls, sep) \o end :
        ls \in UNION {[1..n -> LinePool] : n \in 0..MaxLines},
        sep \in {<<NL>>, <<CR, NL>>},
        end \in {<<>>, <<NL>>}}

InputTexts == FieldLines \cup RawLines \cup PoolTexts

LibInit ==
    /\ input \in InputTexts
    /\ stage = "given"
    /\ out = <<>>
    /\ states = <<>>
    /\ op = [kind |-> "none"]
    /\ pre = <<>>

(* DirectoryItem::from_str(input) *)
CallItemFromStr ==
    /\ stage = "given"
    /\ stage' = "DirectoryItem::from_str"
    /\ out' = <<ItemFromStr(input)>>
    /\ UNCHANGED input

(* Type::is_file on the type of the item parsed *)
CallIsFile ==
    /\ stage = "DirectoryItem::from_str"
    /\ out[1].ok
    /\ stage' = "Type::is_file"
    /\ out' = Append(out, is_file(out[1].val.t))
    /\ UNCHANGED input

(* DirectoryItem::is_info on the item parsed *)
CallIsInfo ==
    /\ stage = "DirectoryItem::from_str"
    /\ out[1].ok
    /\ stage' = "DirectoryItem::is_info"
    /\ out' = Append(out, is_info(out[1].val))
    /\ UNCHANGED input

(* Directory::from_str(input) *)
CallDirectoryFromStr ==
    /\ stage = "given"
    /\ stage' = "Directory::from_str"
    /\ out' = <<DirectoryFromStr(input)>>
    /\ UNCHANGED input

(* format!("{}", directory) on the directory parsed *)
CallFormat ==
    /\ stage = "Directory::from_str"
    /\ out[1].ok
    /\ stage' = "Directory::fmt"
    /\ out' = Append(out, FormatDirectory(out[1].val))
    /\ UNCHANGED input

(* Directory::from_str on the text formatted *)
CallReparse ==
    /\ stage = "Directory::fmt"
    /\ stage' = "Directory::from_str again"
    /\ out' = Append(out, DirectoryFromStr(out[2]))
    /\ UNCHANGED input

LibNext ==
    \/ CallItemFromStr
    \/ CallIsFile
    \/ CallIsInfo
    \/ CallDirectoryFromStr
    \/ CallFormat
    \/ CallReparse

LibSpec == LibInit /\ [][LibNext /\ UNCHANGED vars]_<<vars, run>>

(***************************************************************************)
(* Properties of the navigation engine                                     *)
(***************************************************************************)
Top(s) == s[Len(s)]

Scrollable(view) == view.tag \in {"DisplayDirectory", "DisplayResource"}

(* C1: after new and any sequence of activate_item, pop_state and scroll   *)
(* the stack holds at least one view, so current_state never takes its     *)
(* "lost root state" branch.                                               *)
C1_StackNeverEmpty ==
    /\ Len(states) >= 1
    /\ current_state(states).tag # "panic: lost root state"

(* pop_state was called on a stack that held only the root view *)
C1_Witness ==
    /\ op.kind = "pop_state"
    /\ Len(pre) = 1
    /\ Len(states) = 1

(* C2: every call of activate_item grows the stack by exactly one view,    *)
(* whatever the top view is and whatever the outcome is.                   *)
C2_ActivateGrowsByOne ==
    op.kind = "activate_item" => Len(states) = Len(pre) + 1

(* activate_item was called on top of a failed fetch *)
C2_Witness ==
    /\ op.kind = "activate_item"
    /\ Top(pre).tag = "Error"
    /\ Len(states) = Len(pre) + 1

(* C3: pop_state on a stack that holds only the root view changes nothing; *)
(* on a stack of k > 1 views it removes the top view and leaves the k - 1  *)
(* views below it as they were.                                            *)
C3_PopFrame ==
    op.kind = "pop_state" =>
        IF Len(pre) = 1 THEN states = pre
        ELSE /\ Len(states) = Len(pre) - 1
             /\ \A i \in 1..(Len(pre) - 1) : states[i] = pre[i]

(* pop_state was called on a stack of three views *)
C3_Witness ==
    /\ op.kind = "pop_state"
    /\ Len(pre) = 3
    /\ Len(states) = 2

(* C4: activate_item followed by pop_state gives back the stack as it was  *)
(* before the activate_item, for every outcome of the activate_item.       *)
C4_ActivateThenBack ==
    [][(op.kind = "activate_item" /\ op'.kind = "pop_state") => states' = pre]_vars

(* pop_state was called right after an activate_item made on a message *)
C4_Witness ==
    /\ op.kind = "pop_state"
    /\ op.after = "activate_item"
    /\ Top(pre).tag = "ShowMessage"
    /\ Top(states).tag = "ShowMessage"

SameButScroll(v, w) ==
    /\ v.tag = w.tag
    /\ [v EXCEPT !.scroll = 0] = [w EXCEPT !.scroll = 0]

(* C5: the bottom view is the one new created: no call removes or replaces *)
(* it, its location and content never change, and its scroll offset        *)
(* changes only by a scroll made while it is the top view.                 *)
C5_RootKept ==
    [][/\ Len(states') >= 1
       /\ IF Scrollable(states[1]) THEN SameButScroll(states[1], states'[1])
          ELSE states'[1] = states[1]
       /\ states'[1] # states[1] =>
              (Len(states) = 1 /\ Len(states') = 1 /\ op'.kind = "scroll")]_vars

(* a scroll was made on a second view above a root that had been scrolled *)
C5_Witness ==
    /\ op.kind = "scroll"
    /\ Len(states) = 2
    /\ states[1].tag = "DisplayDirectory"
    /\ states[1].scroll = 2
    /\ Scrollable(states[2])
    /\ states[2].scroll = 1

(* C6: every fetch, the one of new and those of activate_item, gives a     *)
(* Failure view on a transport error, a Listing view with scroll 0 when    *)
(* the body parses as a directory, and a Text view with the raw body and   *)
(* scroll 0 when it does not: never a Failure view for a parse error.      *)
C6_FetchPolicy ==
    op.req # NoRequest =>
        LET view == Top(states)
        IN  IF ~op.resp.ok THEN view.tag = "Error"
            ELSE IF DirectoryFromStr(op.resp.val).ok
            THEN /\ view.tag = "DisplayDirectory"
                 /\ view.dir = DirectoryFromStr(op.resp.val).val
                 /\ view.scroll = 0
            ELSE /\ view.tag = "DisplayResource"
                 /\ view.s = op.resp.val
                 /\ view.scroll = 0

(* The (1-based) indexes, from offset s on, of the navigable items of d *)
NavigableFrom(d, s) == {i \in (s + 1)..Len(d) : Navigable(d[i])}

(* C7: activate_item(n) on a Listing with offset s over the items d        *)
(* fetches the (n+1)-th navigable item of d counted from index s on, with  *)
(* that item's host, port and selector.                                    *)
C7_ActivateTarget ==
    (op.kind = "activate_item" /\ Top(pre).tag = "DisplayDirectory") =>
        LET d == Top(pre).dir
            s == Top(pre).scroll
        IN  \A i \in NavigableFrom(d, s) :
                Cardinality({j \in NavigableFrom(d, s) : j < i}) = op.arg =>
                    op.req = Request(d[i].host, d[i].port, d[i].selector)

(* activate_item(0) at offset 2 fetched the third item of the menu *)
C7_Witness ==
    /\ op.kind = "activate_item"
    /\ op.arg = 0
    /\ Top(pre).tag = "DisplayDirectory"
    /\ Top(pre).scroll = 2
    /\ op.req = Request(HostY, 7070, <<>>)

(* C8: activate_item(n) on a Listing with fewer than n+1 navigable items   *)
(* from the offset on pushes the message "No such item" and fetches        *)
(* nothing.                                                                *)
C8_NoSuchItem ==
    (/\ op.kind = "activate_item"
     /\ Top(pre).tag = "DisplayDirectory"
     /\ Cardinality(NavigableFrom(Top(pre).dir, Top(pre).scroll)) < op.arg + 1) =>
        /\ Top(states) = ShowMessage("No such item")
        /\ op.req = NoRequest

(* activate_item(1) at offset 1, where one navigable item is left *)
C8_Witness ==
    /\ op.kind = "activate_item"
    /\ op.arg = 1
    /\ Top(pre).tag = "DisplayDirectory"
    /\ Len(Top(pre).dir) = 4
    /\ Top(pre).scroll = 1
    /\ Top(states) = ShowMessage("No such item")

(* C9: activate_item(n) on a top view that is no Listing pushes the        *)
(* message "Not in a directory" and fetches nothing.                       *)
C9_NotInDirectory ==
    (op.kind = "activate_item" /\ Top(pre).tag # "DisplayDirectory") =>
        /\ Top(states) = ShowMessage("Not in a directory")
        /\ op.req = NoRequest

(* activate_item was called on a Text view *)
C9_Witness ==
    /\ op.kind = "activate_item"
    /\ Top(pre).tag = "DisplayResource"
    /\ Top(states) = ShowMessage("Not in a directory")

Max(a, b) == IF a >= b THEN a ELSE b

(* C10: scroll(amount) on a Listing or Text view with offset s sets the    *)
(* offset to max(0, s + amount); no offset is ever negative.               *)
C10_ScrollClamp ==
    /\ \A i \in 1..Len(states) : Scrollable(states[i]) => states[i].scroll >= 0
    /\ (op.kind = "scroll" /\ Scrollable(Top(pre))) =>
           Top(states).scroll = Max(0, Top(pre).scroll + op.arg)

(* a scroll moved a Listing past its last item, and one was clamped at 0 *)
C10_Witness ==
    /\ op.kind = "scroll"
    /\ op.arg = -10
    /\ Top(pre).tag = "DisplayDirectory"
    /\ Top(pre).scroll > Len(Top(pre).dir)
    /\ Top(pre).scroll < 10
    /\ Top(states).scroll = 0

(***************************************************************************)
(* Properties of the library                                               *)
(***************************************************************************)
(* The number of lines that precede the first line "." (all, without one) *)
BeforeDot(ls) ==
    IF \E i \in 1..Len(ls) : ls[i] = <<".">>
    THEN (CHOOSE i \in 1..Len(ls) :
              ls[i] = <<".">> /\ \A j \in 1..(i - 1) : ls[j] # <<".">>) - 1
    ELSE Len(ls)

(* The indexes of the lines before the terminator that are no items *)
Offending(ls) == {i \in 1..BeforeDot(ls) : ~ItemFromStr(ls[i]).ok}

First(S) == CHOOSE i \in S : \A j \in S : i <= j

(* C11: when a line before the terminator is no item, Directory::from_str  *)
(* returns no directory and fails with the error ParseDirectory that       *)
(* carries the first such line.                                            *)
C11_DirectoryError ==
    (stage = "Directory::from_str" /\ Offending(Lines(input)) # {}) =>
        out[1] = Err(ParseDirectory(Lines(input)[First(Offending(Lines(input)))]))

(* C12: Directory::from_str returns the items of the lines that precede    *)
(* the first line ".", one per line and in order, whatever follows that    *)
(* line; without such a line it takes every line, and the empty text gives *)
(* the empty directory.                                                    *)
C12_ItemsBeforeDot ==
    (stage = "Directory::from_str" /\ Offending(Lines(input)) = {}) =>
        LET ls == Lines(input)
        IN  /\ out[1].ok
            /\ Len(out[1].val) = BeforeDot(ls)
            /\ \A i \in 1..BeforeDot(ls) : out[1].val[i] = ItemFromStr(ls[i]).val

(* a text of an item line, the terminator and a line that is no item *)
C12_Witness ==
    /\ stage = "Directory::from_str"
    /\ input = GoodLine \o <<NL>> \o DotLine \o <<NL>> \o BadLine
    /\ out[1].ok
    /\ Len(out[1].val) = 1

(* The line of a type character and four fields *)
WireLine(t, n, sel, h, p) ==
    <<t>> \o n \o <<TAB>> \o sel \o <<TAB>> \o h \o <<TAB>> \o p

AllDigits(p) == \A i \in 1..Len(p) : IsDigit(p[i])

(* The port fields that are one digit or more *)
DigitPorts == {p \in PortTexts : p # <<>> /\ AllDigits(p)}

(* The decimal text of the number the digits p write *)
Canonical(p) == IF StripZeros(p) = <<>> THEN <<"0">> ELSE StripZeros(p)

(* What from_str returned is the item of these fields, its port the number *)
(* the digits p write                                                     *)
ParsedAs(r, t, n, sel, h, p) ==
    /\ r.ok
    /\ r.val.t = from_char(t)
    /\ r.val.name = n
    /\ r.val.selector = sel
    /\ r.val.host = h
    /\ Decimal(r.val.port) = Canonical(p)

(* C13 as claimed: every line of a type character, a name, a selector, a   *)
(* host and a port of digits parses to these fields and to that port.      *)
C13_AnyDigits ==
    stage = "DirectoryItem::from_str" =>
        \A t \in TypeChars, n \in NameTexts, sel \in SelectorTexts,
           h \in HostTexts, p \in DigitPorts :
            input = WireLine(t, n, sel, h, p) => ParsedAs(out[1], t, n, sel, h, p)

(* C13: every line of a type character, a name, a selector, a host and a   *)
(* port of digits parses to the type of its first character, to the name   *)
(* without that character, to the selector and the host, and to the port   *)
(* when its number fits usize; when it does not fit, the port is 70.       *)
C13_FieldsParsed ==
    stage = "DirectoryItem::from_str" =>
        \A t \in TypeChars, n \in NameTexts, sel \in SelectorTexts,
           h \in HostTexts, p \in DigitPorts :
            input = WireLine(t, n, sel, h, p) =>
                IF Overflows(p)
                THEN /\ out[1].ok
                     /\ out[1].val =
                            DirectoryItem(from_char(t), n, sel, h, DefaultPort)
                ELSE ParsedAs(out[1], t, n, sel, h, p)

(* a line of type i whose port is written with a leading zero *)
C13_Witness ==
    /\ stage = "DirectoryItem::from_str"
    /\ input = WireLine("i", <<"A">>, <<"/">>, <<"h">>, <<"0", "7">>)
    /\ out[1].ok
    /\ out[1].val = DirectoryItem(Unknown("i"), <<"A">>, <<"/">>, <<"h">>, 7)

IsLine(s) == \A i \in 1..Len(s) : s[i] # NL

TabCount(s) == Cardinality({i \in 1..Len(s) : s[i] = TAB})

(* C14: DirectoryItem::from_str fails on every line of length 1 or less    *)
(* and on every line that has fewer or more than three tabs.               *)
C14_OnlyFourFields ==
    (/\ stage = "DirectoryItem::from_str"
     /\ IsLine(input)
     /\ (Len(input) <= 1 \/ TabCount(input) # 3)) =>
        ~out[1].ok

(* The port fields that are empty or hold a character that is no digit *)
BadPorts == {p \in PortTexts : p = <<>> \/ ~AllDigits(p)}

(* C15: a line whose port field is empty or holds a character that is no   *)
(* digit parses, and to the port 70.                                       *)
C15_BadPortIs70 ==
    stage = "DirectoryItem::from_str" =>
        \A t \in TypeChars, n \in NameTexts, sel \in SelectorTexts,
           h \in HostTexts, p \in BadPorts :
            input = WireLine(t, n, sel, h, p) =>
                /\ out[1].ok
                /\ out[1].val.port = DefaultPort

(* The text ends with the terminator line, a newline after it or not *)
EndsWithDot(text) ==
    /\ Lines(text) # <<>>
    /\ BeforeDot(Lines(text)) = Len(Lines(text)) - 1

HasDot(text) == BeforeDot(Lines(text)) < Len(Lines(text))

(* C16 as claimed: the format of the directory parsed from a text is that  *)
(* text when it ends with the terminator line and that text with the       *)
(* terminator line added when it has none; a newline at the end of the     *)
(* text, present or absent, is not held against the claim.                 *)
C16_AnyAcceptedText ==
    stage = "Directory::fmt" =>
        /\ EndsWithDot(input) => (out[2] = input \/ out[2] \o <<NL>> = input)
        /\ ~HasDot(input) =>
               (out[2] = input \o <<".">> \/ out[2] = input \o <<NL, ".">>)

LastTab(l) == CHOOSE i \in 1..Len(l) : l[i] = TAB /\ \A j \in (i + 1)..Len(l) : l[j] # TAB

PortField(l) == SubSeq(l, LastTab(l) + 1, Len(l))

(* A line in the form the formatter writes: a type character that is no   *)
(* tab, three tabs, a port in decimal without leading zero that fits      *)
WrittenForm(l) ==
    /\ Len(l) > 1
    /\ l[1] # TAB
    /\ TabCount(l) = 3
    /\ PortField(l) # <<>>
    /\ AllDigits(PortField(l))
    /\ Canonical(PortField(l)) = PortField(l)
    /\ ~Overflows(PortField(l))

(* No line of the text ends with a carriage return *)
NoCarriageReturn(text) ==
    \A i \in 1..Len(text) : text[i] = CR => (i < Len(text) /\ text[i + 1] # NL)

RECURSIVE EachWithNewline(_)
EachWithNewline(ls) ==
    IF ls = <<>> THEN <<>> ELSE Head(ls) \o <<NL>> \o EachWithNewline(Tail(ls))

(* C16: for an accepted text whose item lines are in the form the          *)
(* formatter writes and end with no carriage return, the format of the     *)
(* parsed directory is the item lines, a newline after each, and the line  *)
(* "." with no newline: it is the text when the text ends with "." right   *)
(* after its item lines, and the text with "." added when the text has no  *)
(* terminator and is empty or ends with a newline.                         *)
C16_WrittenFormRoundTrip ==
    (/\ stage = "Directory::fmt"
     /\ NoCarriageReturn(input)
     /\ \A i \in 1..BeforeDot(Lines(input)) : WrittenForm(Lines(input)[i])) =>
        LET ls    == Lines(input)
            items == SubSeq(ls, 1, BeforeDot(ls))
        IN  /\ out[2] = EachWithNewline(items) \o <<".">>
            /\ (EndsWithDot(input) /\ input[Len(input)] = ".") => out[2] = input
            /\ (~HasDot(input) /\ (input = <<>> \/ input[Len(input)] = NL)) =>
                   out[2] = input \o <<".">>

(* two item lines and the terminator, formatted back to the same text *)
C16_Witness ==
    /\ stage = "Directory::fmt"
    /\ input = GoodLine \o <<NL>> \o InfoLine \o <<NL>> \o DotLine
    /\ out[2] = input

(* C17: the directory parsed from the format of a directory is that        *)
(* directory: as many items, in the same order, each with the same type,   *)
(* name, selector, host and port.                                          *)
C17_ParseOfFormat ==
    stage = "Directory::from_str again" =>
        /\ out[3].ok
        /\ Len(out[3].val) = Len(out[1].val)
        /\ \A i \in 1..Len(out[1].val) : out[3].val[i] = out[1].val[i]

(* a directory of an item of the unknown type i and of a file *)
C17_Witness ==
    /\ stage = "Directory::from_str again"
    /\ Len(out[1].val) = 2
    /\ out[1].val[1].t = Unknown("i")
    /\ out[1].val[2].t = File
    /\ out[3].ok
    /\ out[3].val = out[1].val

(* The types the claim C18 names as no files *)
NamedNoFile ==
    {Directory, <<"CSOPhoneBook">>, <<"Error">>, <<"SearchServer">>,
     <<"TelnetSession">>, <<"Tn3270Session">>, <<"RedundantServer">>}

(* C18: Type::is_file is true of the type File and false of Directory,     *)
(* CSOPhoneBook, Error, SearchServer, TelnetSession, Tn3270Session and     *)
(* RedundantServer.                                                        *)
C18_IsFile ==
    stage = "Type::is_file" =>
        /\ out[1].val.t = File => out[2]
        /\ out[1].val.t \in NamedNoFile => ~out[2]

(* The rows of a Listing view as display_directory draws them *)
RowsOf(view) == display_directory(view.dir, view.scroll)

(* C19: the item display_directory draws with the symbol at position k of  *)
(* MENU_KEYS is the item activate_item(k) fetches, at every offset; items  *)
(* without a button are the informational ones and are never fetched.      *)
C19_ButtonsAgree ==
    /\ Top(states).tag = "DisplayDirectory" =>
           LET view == Top(states)
               rows == RowsOf(view)
           IN  /\ \A j \in {i \in 1..Len(rows) : ~rows[i].panic} :
                      /\ rows[j].labelled <=> ~is_info(rows[j].item)
                      /\ rows[j].labelled =>
                             /\ KeyTargets(rows[j].button) # {}
                             /\ \A n \in KeyTargets(rows[j].button) :
                                    Selection(view, n) = Fetch(view.dir[view.scroll + j])
               /\ \A n \in 0..(Len(MENU_KEYS) - 1) :
                      Selection(view, n).fetch =>
                          \E j \in 1..Len(rows) :
                              /\ rows[j].labelled
                              /\ rows[j].button = MENU_KEYS[n + 1]
    /\ (op.kind = "activate_item" /\ Top(pre).tag = "DisplayDirectory") =>
           LET rows == RowsOf(Top(pre))
               hit  == {j \in 1..Len(rows) :
                            rows[j].labelled /\ rows[j].button = MENU_KEYS[op.arg + 1]}
           IN  IF hit = {} THEN op.req = NoRequest
               ELSE \A j \in hit :
                        op.req = Request(rows[j].item.host, rows[j].item.port,
                                         rows[j].item.selector)

(* at offset 1 the row of the file B, after the row of an informational    *)
(* item, has the first symbol, and activate_item(0) fetched B              *)
C19_Witness ==
    /\ op.kind = "activate_item"
    /\ op.arg = 0
    /\ Top(pre).tag = "DisplayDirectory"
    /\ Top(pre).scroll = 1
    /\ Len(RowsOf(Top(pre))) = 3
    /\ ~RowsOf(Top(pre))[1].labelled
    /\ RowsOf(Top(pre))[2].button = "0"
    /\ op.req = Request(HostY, 7070, <<>>)

(* The last four characters of s are f, a, k, e *)
EndsInFake(s) ==
    /\ Len(s) >= 4
    /\ s[Len(s) - 3] = "f" /\ s[Len(s) - 2] = "a"
    /\ s[Len(s) - 1] = "k" /\ s[Len(s)] = "e"

(* C20: an item is informational, and so not navigable, exactly when its   *)
(* type code is i, or its selector ends with "fake", or its name or its    *)
(* host is "fake"; only the items that are navigable get a number.         *)
C20_Informational ==
    stage = "DirectoryItem::is_info" =>
        LET item == out[1].val
            info == \/ as_char(item.t) = "i"
                    \/ EndsInFake(item.selector)
                    \/ item.name = <<"f", "a", "k", "e">>
                    \/ item.host = <<"f", "a", "k", "e">>
        IN  /\ out[2] <=> info
            /\ Navigable(item) <=> ~info
            /\ Candidates(<<item>>, 0) = (IF info THEN <<>> ELSE <<item>>)
            /\ display_directory(<<item>>, 0)[1].labelled <=> ~info

(* a file whose selector ends with "fake" and whose name only ends with it *)
C20_Witness ==
    /\ stage = "DirectoryItem::is_info"
    /\ out[1].val.t = File
    /\ out[1].val.name = <<"x">> \o FAKE
    /\ out[1].val.selector = <<"/">> \o FAKE
    /\ out[1].val.host = <<"h">>
    /\ out[2]

(***************************************************************************)
(* Properties of the client, continued                                     *)
(***************************************************************************)
(* C21: scroll changes the scroll offset of the top view and nothing       *)
(* else: the stack keeps its length, the views below the top and the       *)
(* location and content of the top view are as they were; on a Message or  *)
(* a Failure view it changes nothing at all.                               *)
C21_ScrollFrame ==
    op.kind = "scroll" =>
        /\ Len(states) = Len(pre)
        /\ \A i \in 1..(Len(pre) - 1) : states[i] = pre[i]
        /\ IF Scrollable(Top(pre)) THEN SameButScroll(Top(pre), Top(states))
           ELSE states = pre

(* a scroll moved the third view, above two listings that had been        *)
(* scrolled themselves                                                    *)
C21_Witness ==
    /\ op.kind = "scroll"
    /\ Len(pre) = 3
    /\ pre[1].tag = "DisplayDirectory"
    /\ pre[1].scroll = 2
    /\ pre[2].tag = "DisplayDirectory"
    /\ pre[2].scroll = 1
    /\ Scrollable(pre[3])
    /\ states[3].scroll # pre[3].scroll

(* The symbols of the keystroke alphabet, class by class *)
LowerCase ==
    <<"a", "b", "c", "d", "e", "f", "g", "h", "i", "j", "k", "l", "m",
      "n", "o", "p", "q", "r", "s", "t", "u", "v", "w", "x", "y", "z">>
UpperCase ==
    <<"A", "B", "C", "D", "E", "F", "G", "H", "I", "J", "K", "L", "M",
      "N", "O", "P", "Q", "R", "S", "T", "U", "V", "W", "X", "Y", "Z">>
Punctuation ==
    <<"!", "@", "#", "$", "%", "^", "&", "*", "(", ")", "-", "+", "_", "=">>

PairwiseDistinct(seq) ==
    \A i, j \in 1..Len(seq) : seq[i] = seq[j] => i = j

(* the press of an alphabet symbol made exactly the call activate(k) for  *)
(* the position k of the symbol, and the stack is the one that call leaves *)
OneActivation ==
    (op.kind = "key" /\ KeyTargets(op.arg.pressed) # {}) =>
        \E k \in 0..(Len(MENU_KEYS) - 1) :
            /\ MENU_KEYS[k + 1] = op.arg.pressed
            /\ op.arg.calls = <<k>>
            /\ Len(states) = Len(pre) + 1
            /\ states = ActivatedStack(pre, k, op.resp)

(* C22 as stated: the keystroke alphabet is a sequence of 82 pairwise     *)
(* distinct symbols in the order 0-9, a-z, A-Z, !@#$%^&*()-+_=, and the    *)
(* press of the symbol at position k calls activate(k) exactly once.      *)
C22_EightyTwoSymbols ==
    /\ Len(MENU_KEYS) = 82
    /\ PairwiseDistinct(MENU_KEYS)
    /\ MENU_KEYS = Digits \o LowerCase \o UpperCase \o Punctuation
    /\ OneActivation

(* C22: the keystroke alphabet is a sequence of 76 pairwise distinct      *)
(* symbols in the order 0-9, a-z, A-Z, !@#$%^&*()-+_=, and the press of    *)
(* the symbol at the zero-based position k calls activate(k) exactly once, *)
(* so that the stack grows by exactly one view.                           *)
C22_KeyPress ==
    /\ Len(MENU_KEYS) = 76
    /\ PairwiseDistinct(MENU_KEYS)
    /\ MENU_KEYS = Digits \o LowerCase \o UpperCase \o Punctuation
    /\ OneActivation

(* the second symbol was pressed on a listing and the second navigable    *)
(* item was fetched                                                       *)
C22_Witness ==
    /\ op.kind = "key"
    /\ op.arg.pressed = "1"
    /\ op.arg.calls = <<1>>
    /\ Top(pre).tag = "DisplayDirectory"
    /\ op.req # NoRequest
    /\ Len(states) = Len(pre) + 1

(* The symbols of MENU_KEYS *)
Symbols == {MENU_KEYS[k] : k \in 1..Len(MENU_KEYS)}

(* C23: drawing the top view never fails: on every Listing view, at every  *)
(* scroll offset, each item from the offset onward is drawn, the navigable *)
(* ones with a symbol of MENU_KEYS, and MENU_KEYS is never indexed past    *)
(* its end, however many navigable items the fetched directory holds.     *)
C23_RenderingNeverFails ==
    Top(states).tag = "DisplayDirectory" =>
        LET view == Top(states)
            rows == RowsOf(view)
        IN  /\ display(states)
            /\ Len(rows) = Len(view.dir) - view.scroll \/ view.scroll > Len(view.dir)
            /\ \A j \in 1..Len(rows) :
                   Navigable(rows[j].item) =>
                       rows[j].labelled /\ rows[j].button \in Symbols

====
